---- MODULE Spec2Model ----
(***************************************************************************)
(* A model of instagram_scraper.py: the Streamlit script that logs into an *)
(* Instagram account (Account.get_client and its handle_exception policy), *)
(* caches the session in session_<USERNAME>.json for SESSION_DURATION      *)
(* seconds, and counts the posts of a list of target usernames per         *)
(* calendar month (count_posts_for_month, manual_search, the "Process All  *)
(* IDs" loop).  The instagrapi Client is an external library: each of its  *)
(* calls either succeeds or raises, chosen by the environment.             *)
(***************************************************************************)
EXTENDS Integers, Sequences, FiniteSets, TLC

VARIABLES
    now,          \* time.time(), in seconds
    sfile,        \* the session files on disk, by USERNAME
    client,       \* st.session_state.client
    results,      \* st.session_state.results
    process_all,  \* st.session_state['process_all']
    pc,           \* the position of the current script run
    runs,         \* the number of script runs started
    USERNAME,     \* the sidebar's username of the current run
    targets,      \* instagram_usernames of the current run
    range,        \* start_year, start_month_num, end_year, end_month_num
    idx,          \* the loop index of "for idx, username in enumerate(...)"
    processed_usernames,
    initPath,     \* which branch the session initialisation took in this run
    initSnap,     \* what the session initialisation read when it decided
    handled,      \* the handle_exception invocations of this run, in order
    calls,        \* the usernames manual_search was called with in this run
    lastSearch,   \* the last manual_search call: its inputs and its outcome
    warning,      \* the st.warning of the process section of this run
    cposts,       \* count_posts_for_month: the posts user_medias returned
    cquery,       \* count_posts_for_month: the (year, month) asked for
    cout          \* count_posts_for_month: the (count, links) returned

vars == <<now, sfile, client, results, process_all, pc, runs, USERNAME, targets,
          range, idx, processed_usernames, initPath, initSnap, handled, calls,
          lastSearch, warning, cposts, cquery, cout>>

appVars == <<now, sfile, client, results, process_all, pc, runs, USERNAME,
             targets, range, idx, processed_usernames, initPath, initSnap,
             handled, calls, warning>>

countVars == <<cposts, cquery, cout>>

----------------------------------------------------------------------------
(* Program constants *)

SESSION_DURATION == 86400

MinYear == 2000

(* Bounds of the model *)

MaxYears == 3         \* the years MinYear .. MinYear + MaxYears - 1
TicksPerMonth == 2    \* the instants told apart within one calendar month
MaxPosts == 2         \* the posts user_medias returns
MaxFailAt == 2        \* the client calls of one manual_search that may raise
MaxTargets == 3       \* the length of the extracted username list
MaxRuns == 2          \* the script runs of one behaviour
MaxRelogin == 2       \* the cap of client.relogin_attempt

Years == MinYear .. (MinYear + MaxYears - 1)

Months == 1 .. 12

----------------------------------------------------------------------------
(* datetime: a naive timestamp is a number of ticks, TicksPerMonth per month *)

DateTime(year, month) == ((year * 12) + (month - 1)) * TicksPerMonth

MonthNames ==
    <<"January", "February", "March", "April", "May", "June", "July",
      "August", "September", "October", "November", "December">>

MonthName(month) == MonthNames[month]

(* post.taken_at.replace(tzinfo=None) if post.taken_at.tzinfo else         *)
(* post.taken_at: replace drops the zone and keeps the wall-clock fields,  *)
(* it does not convert *)
NaiveDate(post) ==
    IF post.taken_at.tzinfo THEN post.taken_at.t ELSE post.taken_at.t

Permalink(post) == "https://www.instagram.com/p/" \o ToString(post.code) \o "/"

InMonthLoose(post_date, start_date, end_date) ==
    start_date <= post_date /\ post_date <= end_date

InMonth(post_date, start_date, end_date) ==
    start_date <= post_date /\ post_date < end_date

RECURSIVE CountLoop(_, _, _, _, _)
CountLoop(posts, i, start_date, end_date, acc) ==
    IF i > Len(posts) THEN acc
    ELSE IF InMonth(NaiveDate(posts[i]), start_date, end_date)
         THEN CountLoop(posts, i + 1, start_date, end_date,
                        [count |-> acc.count + 1,
                         links |-> Append(acc.links, Permalink(posts[i]))])
         ELSE CountLoop(posts, i + 1, start_date, end_date, acc)

count_posts_for_month(posts, year, month) ==
    LET start_date == DateTime(year, month)
        end_date == IF month < 12 THEN DateTime(year, month + 1)
                    ELSE DateTime(year + 1, 1)
    IN  CountLoop(posts, 1, start_date, end_date, [count |-> 0, links |-> <<>>])

----------------------------------------------------------------------------
(* The failure kinds the client raises; "None" stands for no exception *)

LoginKinds ==
    {"BadPassword", "LoginRequired", "ChallengeRequired", "FeedbackRequired",
     "PleaseWaitFewMinutes", "Other"}

Kinds == LoginKinds \cup {"UserNotFound"}

BlockedMessage == "This action was blocked. Please try again later"

RestrictMessage == "We restrict certain activity to protect our community"

TemporaryMessage == "Your account has been temporarily blocked"

Messages == {BlockedMessage, RestrictMessage, TemporaryMessage, "feedback_required"}

ResolveOutcomes ==
    {"ok", "ChallengeRequired", "SelectContactPointRecoveryForm",
     "RecaptchaChallengeForm"}

(* What the environment decides while handle_exception runs:               *)
(*   lib        in the BadPassword branch, the calls set_proxy, next_proxy, *)
(*              rebuild_client_settings, get_settings and                  *)
(*              update_client_settings return normally                     *)
(*   relogin_ok client.relogin() logs in                                   *)
(*   api_path   client.last_json["challenge"]["api_path"]                  *)
(*   resolve    the outcome of client.challenge_resolve                    *)
(*   message    client.last_json["feedback_message"]                       *)
DefaultEnv ==
    [lib |-> TRUE, relogin_ok |-> TRUE, api_path |-> "/challenge/",
     resolve |-> "ok", message |-> "feedback_required"]

HandlerEnvs(e) ==
    CASE e = "BadPassword" ->
           {[DefaultEnv EXCEPT !.lib = l] : l \in BOOLEAN}
      [] e = "LoginRequired" ->
           {[DefaultEnv EXCEPT !.relogin_ok = r] : r \in BOOLEAN}
      [] e = "ChallengeRequired" ->
           {DefaultEnv} \cup
           {[DefaultEnv EXCEPT !.api_path = "/challenge/123/", !.resolve = r] :
              r \in ResolveOutcomes}
      [] e = "FeedbackRequired" ->
           {[DefaultEnv EXCEPT !.message = m] : m \in Messages}
      [] OTHER -> {DefaultEnv}

(* Account.freeze: duration = hours * 3600 + days * 86400; the duration is *)
(* logged and nothing else is kept *)
freeze(hours, days) == (hours * 3600) + (days * 86400)

NoClient ==
    [set |-> FALSE, auth |-> FALSE, handler |-> FALSE, relogin_attempt |-> 0]

(* Client(): a new, unauthenticated client object *)
NewClient ==
    [set |-> TRUE, auth |-> FALSE, handler |-> FALSE, relogin_attempt |-> 0]

(* client.relogin(): a login with the cached credentials, counted in       *)
(* relogin_attempt *)
Relogin(cl, ok) ==
    [cl EXCEPT !.auth = ok,
               !.relogin_attempt =
                   IF cl.relogin_attempt < MaxRelogin
                   THEN cl.relogin_attempt + 1 ELSE cl.relogin_attempt]

Handled(e, env, cl, raised, freezes, relogin) ==
    [e |-> e, env |-> env, client |-> cl, raised |-> raised,
     freezes |-> freezes, relogin |-> relogin]

(* What follows the isinstance chain for the kinds that fall through it *)
FallThroughReturns(e) == "None"

FallThrough(e) == e

(* Account.get_client.handle_exception(client, e): the client after it,    *)
(* the exception it raises ("None": it returns), the durations it froze    *)
(* the account for, and whether it logged in again *)
handle_exception(cl, e, env) ==
    CASE e = "BadPassword" ->
           IF ~env.lib THEN Handled(e, env, cl, "Other", <<>>, FALSE)
           ELSE IF cl.relogin_attempt > 0
           THEN Handled(e, env, cl, "ReloginAttemptExceeded",
                        <<freeze(0, 7)>>, FALSE)
           ELSE Handled(e, env, cl, "None", <<>>, FALSE)
      [] e = "LoginRequired" ->
           IF env.relogin_ok
           THEN Handled(e, env, Relogin(cl, TRUE), "None", <<>>, TRUE)
           ELSE Handled(e, env, Relogin(cl, FALSE), "Other", <<>>, TRUE)
      [] e = "ChallengeRequired" ->
           IF env.api_path = "/challenge/"
           THEN Handled(e, env, cl, "None", <<>>, FALSE)
           ELSE IF env.resolve = "ok"
           THEN Handled(e, env, cl, "None", <<>>, FALSE)
           ELSE IF env.resolve = "ChallengeRequired"
           THEN Handled(e, env, cl, env.resolve, <<freeze(0, 2)>>, FALSE)
           ELSE Handled(e, env, cl, env.resolve, <<freeze(0, 4)>>, FALSE)
      [] e = "FeedbackRequired" ->
           Handled(e, env, cl, FallThrough(e),
                   IF env.message = BlockedMessage THEN <<freeze(12, 0)>>
                   ELSE IF env.message = RestrictMessage THEN <<freeze(12, 0)>>
                   ELSE IF env.message = TemporaryMessage THEN <<freeze(0, 0)>>
                   ELSE <<>>,
                   FALSE)
      [] e = "PleaseWaitFewMinutes" ->
           Handled(e, env, cl, FallThrough(e), <<freeze(1, 0)>>, FALSE)
      [] OTHER ->
           Handled(e, env, cl, FallThrough(e), <<>>, FALSE)

(* Account.get_client(): login is the outcome of cl.login, "ok" or the     *)
(* kind it raises.  raised is what get_client raises ("None": it returns   *)
(* client); log holds the handle_exception invocation, if any *)
get_client(login, env) ==
    LET cl == [NewClient EXCEPT !.handler = TRUE]
    IN  IF login = "ok"
        THEN [raised |-> "None", client |-> [cl EXCEPT !.auth = TRUE],
              log |-> <<>>, logins |-> 1]
        ELSE LET h == handle_exception(cl, login, env)
             IN  [raised |-> h.raised, client |-> h.client, log |-> <<h>>,
                  logins |-> IF h.relogin THEN 2 ELSE 1]

----------------------------------------------------------------------------
(* manual_search *)

Row(username, post_count, year, month, links) ==
    [id |-> username, count |-> post_count, year |-> year, month |-> month,
     links |-> links]

NotFoundRow(username) == Row(username, 0, "-", "-", "User not found")

ErrorRow(username) == Row(username, 0, "-", "-", "Error occurred")

(* " | ".join(post_links) *)
RECURSIVE Join(_)
Join(links) ==
    IF links = <<>> THEN ""
    ELSE IF Len(links) = 1 THEN links[1]
    ELSE links[1] \o " | " \o Join(Tail(links))

(* The (year, month) pairs of the two nested range(...) loops, in order *)
FirstMonthOf(year, r) == IF year = r.start_year THEN r.start_month ELSE 1

LastMonthOfShort(year, r) == r.end_month

LastMonthOf(year, r) == IF year = r.end_year THEN r.end_month ELSE 12

RECURSIVE MonthLoop(_, _, _)
MonthLoop(year, month, r) ==
    IF year > r.end_year THEN <<>>
    ELSE IF month > LastMonthOf(year, r)
         THEN IF year + 1 > r.end_year THEN <<>>
              ELSE MonthLoop(year + 1, FirstMonthOf(year + 1, r), r)
         ELSE <<<<year, month>>>> \o MonthLoop(year, month + 1, r)

MonthsOfRange(r) == MonthLoop(r.start_year, FirstMonthOf(r.start_year, r), r)

(* The posts client.user_medias returns for a target: the environment *)
Media(username) ==
    IF username = "alice"
    THEN << [code |-> 1, taken_at |-> [t |-> DateTime(MinYear, 12), tzinfo |-> TRUE]],
            [code |-> 2, taken_at |-> [t |-> DateTime(MinYear + 1, 1), tzinfo |-> FALSE]],
            [code |-> 3, taken_at |-> [t |-> DateTime(MinYear + 1, 1) + 1, tzinfo |-> TRUE]] >>
    ELSE <<>>

MonthRow(username, ym) ==
    LET c == count_posts_for_month(Media(username), ym[1], ym[2])
    IN  Row(username, c.count, ToString(ym[1]), MonthName(ym[2]), Join(c.links))

NoFail == 0 - 1

(* What the environment decides during one manual_search call:             *)
(*   failAt   the client call that raises: 0 is user_id_from_username, k   *)
(*            is the user_medias call of the k-th month, NoFail is none    *)
(*   e        the kind it raises                                           *)
(*   env      the environment of handle_exception                          *)
(*   default_raises   the library's own handle_exception attribute, on a   *)
(*            client that get_client did not build, raises                 *)
(* The choices the call does not read are left at their defaults *)
SearchOutcomes(cl) ==
    {[failAt |-> NoFail, e |-> "None", env |-> DefaultEnv, default_raises |-> FALSE]}
    \cup
    UNION {{[failAt |-> k, e |-> e, env |-> env, default_raises |-> d] :
              k \in 0 .. MaxFailAt,
              env \in IF cl.handler THEN HandlerEnvs(e) ELSE {DefaultEnv},
              d \in IF cl.handler \/ e = "UserNotFound" THEN {FALSE} ELSE BOOLEAN} :
           e \in Kinds}

(* The except clause the exception reaches first *)
CaughtAsNotFound(e) == e = "UserNotFound"

(* manual_search(username, start_year, start_month, end_year, end_month,   *)
(* client) under the outcome out: raised is what leaves manual_search      *)
(* ("None": it returns rows) *)
manual_search(username, r, cl, out) ==
    LET months == MonthsOfRange(r)
        n == Len(months)
        fails == out.failAt # NoFail /\ out.failAt <= n
        done == IF fails
                THEN IF out.failAt = 0 THEN 0 ELSE out.failAt - 1
                ELSE n
        all_posts == [i \in 1 .. done |-> MonthRow(username, months[i])]
    IN  IF ~fails
        THEN [raised |-> "None", rows |-> all_posts, client |-> cl, log |-> <<>>]
        ELSE IF CaughtAsNotFound(out.e)
        THEN [raised |-> "None", rows |-> Append(all_posts, NotFoundRow(username)),
              client |-> cl, log |-> <<>>]
        ELSE IF cl.handler
        THEN LET h == handle_exception(cl, out.e, out.env)
             IN  IF h.raised # "None"
                 THEN [raised |-> h.raised, rows |-> <<>>, client |-> h.client,
                       log |-> <<h>>]
                 ELSE [raised |-> "None",
                       rows |-> Append(all_posts, ErrorRow(username)),
                       client |-> h.client, log |-> <<h>>]
        ELSE IF out.default_raises
        THEN [raised |-> "TypeError", rows |-> <<>>, client |-> cl, log |-> <<>>]
        ELSE [raised |-> "None", rows |-> Append(all_posts, ErrorRow(username)),
              client |-> cl, log |-> <<>>]

----------------------------------------------------------------------------
(* The session file and the script's inputs *)

NoFile == [exists |-> FALSE, mtime |-> 0, auth |-> FALSE]

Usernames == {"", "ig_user"}

Passwords == {"", "secret"}

(* The time between two script runs: one second short of the session       *)
(* duration, or the session duration *)
Deltas == {SESSION_DURATION - 1, SESSION_DURATION}

NoRange == [start_year |-> 0, start_month |-> 0, end_year |-> 0, end_month |-> 0]

DateRange(sy, sm, ey, em) ==
    [start_year |-> sy, start_month |-> sm, end_year |-> ey, end_month |-> em]

(* Check Date Range Validity *)
valid_date_range(r) ==
    ~(r.end_year < r.start_year
      \/ (r.end_year = r.start_year /\ r.end_month < r.start_month))

NoSnap ==
    [held |-> FALSE, exists |-> FALSE, age |-> 0, password |-> FALSE,
     login_button |-> FALSE, logins |-> 0]

NoOutcome ==
    [failAt |-> NoFail, e |-> "None", env |-> DefaultEnv, default_raises |-> FALSE]

NoSearch ==
    [called |-> FALSE, username |-> "", r |-> NoRange, out |-> NoOutcome,
     handler |-> FALSE, raised |-> "None", rows |-> <<>>]

SearchRecord(username, r, cl, out, s) ==
    [called |-> TRUE, username |-> username, r |-> r, out |-> out,
     handler |-> cl.handler, raised |-> s.raised, rows |-> s.rows]

FileAge(f, t) == t - f.mtime

is_session_validAtTTL(f, t) == f.exists /\ FileAge(f, t) <= SESSION_DURATION

(* is_session_valid(session_file) at time t *)
is_session_valid(f, t) == f.exists /\ FileAge(f, t) < SESSION_DURATION

(* The condition of the clean-up at the end of the script: t1 is the time  *)
(* is_session_valid reads, t2 the time the second operand reads *)
CleanupRemoves(f, t1, t2) ==
    is_session_valid(f, t1) /\ FileAge(f, t2) >= SESSION_DURATION

----------------------------------------------------------------------------
(* The state after the process has started, before the first script run *)

CountIdle ==
    /\ cposts = <<>>
    /\ cquery = <<MinYear, 1>>
    /\ cout = [count |-> 0, links |-> <<>>]

AppIdle ==
    /\ now = 0
    /\ sfile = [u \in Usernames |-> NoFile]
    /\ client = NoClient
    /\ results = <<>>
    /\ process_all = FALSE
    /\ pc = "idle"
    /\ runs = 0
    /\ USERNAME = ""
    /\ targets = <<>>
    /\ range = NoRange
    /\ idx = 0
    /\ processed_usernames = {}
    /\ initPath = "none"
    /\ initSnap = NoSnap
    /\ handled = <<>>
    /\ calls = <<>>
    /\ warning = "none"

Init ==
    /\ AppIdle
    /\ lastSearch = NoSearch
    /\ CountIdle

(* A script run starts (lines 195-209, 263-265): time has passed since the *)
(* last run; in a new browser session st.session_state starts empty *)
Rerun ==
    /\ pc \in {"idle", "ended", "crashed"}
    /\ runs < MaxRuns
    /\ \E d \in Deltas, fresh \in BOOLEAN :
          /\ now' = now + d
          /\ client' = IF fresh THEN NoClient ELSE client
          /\ results' = IF fresh THEN <<>> ELSE results
          /\ process_all' = IF fresh THEN FALSE ELSE process_all
    /\ runs' = runs + 1
    /\ pc' = "init"
    /\ USERNAME' = ""
    /\ targets' = <<>>
    /\ range' = NoRange
    /\ idx' = 0
    /\ processed_usernames' = {}
    /\ initPath' = "none"
    /\ initSnap' = NoSnap
    /\ handled' = <<>>
    /\ calls' = <<>>
    /\ lastSearch' = NoSearch
    /\ warning' = "none"
    /\ UNCHANGED <<sfile, countVars>>

(* Initialize Instagram Client in Session State if not already present    *)
(* (lines 201-233) *)
SessionInit ==
    /\ pc = "init"
    /\ \E u \in Usernames, p \in Passwords, login_button \in BOOLEAN,
          login \in {"ok"} \cup LoginKinds, load_ok \in BOOLEAN :
         \E env \in HandlerEnvs(login) :
            LET f == sfile[u]
                g == get_client(login, env)
                path == IF client.set THEN "held"
                        ELSE IF u # "" /\ is_session_valid(f, now) THEN "load"
                        ELSE IF u # "" /\ p # "" /\ login_button THEN "login"
                        ELSE "prompt"
            IN  /\ USERNAME' = u
                /\ initPath' = path
                /\ initSnap' = [held |-> client.set, exists |-> f.exists,
                                age |-> IF f.exists THEN FileAge(f, now) ELSE 0,
                                password |-> p # "",
                                login_button |-> login_button,
                                logins |-> IF path = "login" THEN g.logins ELSE 0]
                /\ CASE path = "load" ->
                          /\ client' = IF load_ok
                                       THEN [NewClient EXCEPT !.auth = f.auth]
                                       ELSE NewClient
                          /\ UNCHANGED <<sfile, handled>>
                     [] path = "login" ->
                          /\ handled' = g.log
                          /\ IF g.raised = "None"
                             THEN /\ client' = g.client
                                  /\ sfile' = [sfile EXCEPT ![u] =
                                         [exists |-> TRUE, mtime |-> now,
                                          auth |-> g.client.auth]]
                             ELSE UNCHANGED <<client, sfile>>
                     [] OTHER -> UNCHANGED <<client, sfile, handled>>
    /\ pc' = "main"
    /\ UNCHANGED <<now, results, process_all, runs, targets, range, idx,
                   processed_usernames, calls, lastSearch, warning, countVars>>

(* Process All User IDs if valid and client is initialized (lines 257-280) *)
ProcessButton(lists, ranges) ==
    /\ pc = "main"
    /\ \E t \in lists, r \in ranges, process_button \in BOOLEAN :
          IF ~valid_date_range(r)
          THEN /\ warning' = "End date cannot be earlier than start date."
               /\ pc' = "cleanup"
               /\ UNCHANGED <<results, targets, range, idx>>
          ELSE IF ~process_button
          THEN /\ pc' = "cleanup"
               /\ UNCHANGED <<results, targets, range, idx, warning>>
          ELSE IF t = <<>>
          THEN /\ warning' = "No valid Instagram usernames found."
               /\ pc' = "cleanup"
               /\ UNCHANGED <<results, targets, range, idx>>
          ELSE IF ~client.set
          THEN /\ warning' = "Please log in before processing IDs."
               /\ pc' = "cleanup"
               /\ UNCHANGED <<results, targets, range, idx>>
          ELSE /\ results' = <<>>
               /\ targets' = t
               /\ range' = r
               /\ idx' = 1
               /\ pc' = "loop"
               /\ UNCHANGED warning
    /\ UNCHANGED <<now, sfile, client, process_all, runs, USERNAME,
                   processed_usernames, initPath, initSnap, handled, calls,
                   lastSearch, countVars>>

AlreadyProcessedNever(username, done) == FALSE

(* if username not in processed_usernames *)
AlreadyProcessed(username, done) == username \in done

(* One iteration of "for idx, username in enumerate(instagram_usernames)" *)
LoopStep ==
    /\ pc = "loop"
    /\ idx <= Len(targets)
    /\ LET username == targets[idx]
       IN  IF AlreadyProcessed(username, processed_usernames)
           THEN /\ idx' = idx + 1
                /\ UNCHANGED <<client, results, pc, processed_usernames,
                               handled, calls, lastSearch>>
           ELSE \E out \in SearchOutcomes(client) :
                  LET s == manual_search(username, range, client, out)
                  IN  /\ calls' = Append(calls, username)
                      /\ lastSearch' = SearchRecord(username, range, client, out, s)
                      /\ handled' = handled \o s.log
                      /\ client' = s.client
                      /\ IF s.raised # "None"
                         THEN /\ pc' = "crashed"
                              /\ UNCHANGED <<results, processed_usernames, idx>>
                         ELSE /\ results' = results \o s.rows
                              /\ processed_usernames' =
                                     processed_usernames \cup {username}
                              /\ idx' = idx + 1
                              /\ UNCHANGED pc
    /\ UNCHANGED <<now, sfile, process_all, runs, USERNAME, targets, range,
                   initPath, initSnap, warning, countVars>>

(* The loop is over: st.session_state['process_all'] = True *)
LoopExit ==
    /\ pc = "loop"
    /\ idx > Len(targets)
    /\ process_all' = TRUE
    /\ pc' = "cleanup"
    /\ UNCHANGED <<now, sfile, client, results, runs, USERNAME, targets, range,
                   idx, processed_usernames, initPath, initSnap, handled, calls,
                   lastSearch, warning, countVars>>

(* Clean up old session files and processed files (lines 332-335); the     *)
(* results table and the downloads before it (lines 290-330) write and     *)
(* remove only their own temporary files *)
Cleanup ==
    /\ pc = "cleanup"
    /\ \E d \in {0, 1} :
          /\ now' = now + d
          /\ sfile' = IF CleanupRemoves(sfile[USERNAME], now, now + d)
                      THEN [sfile EXCEPT ![USERNAME] = NoFile]
                      ELSE sfile
    /\ pc' = "ended"
    /\ UNCHANGED <<client, results, process_all, runs, USERNAME, targets, range,
                   idx, processed_usernames, initPath, initSnap, handled, calls,
                   lastSearch, warning, countVars>>

(* The inputs of the script runs: the target lists and the date ranges *)
TargetNames == {"alice", "bob"}

RECURSIVE SeqsUpTo(_, _)
SeqsUpTo(S, n) ==
    IF n = 0 THEN {<<>>}
    ELSE LET shorter == SeqsUpTo(S, n - 1)
         IN  shorter \cup {Append(q, x) : q \in shorter, x \in S}

WindowMonths == {<<MinYear, 12>>, <<MinYear + 1, 1>>, <<MinYear + 1, 2>>}

WindowRanges ==
    {DateRange(a[1], a[2], b[1], b[2]) : a \in WindowMonths, b \in WindowMonths}

FewLists == {<<>>, <<"alice">>}

FewRanges ==
    {DateRange(MinYear, 12, MinYear + 1, 1), DateRange(MinYear + 1, 1, MinYear, 12)}

(* The script's runs, one after the other, with the session's life cycle *)
Next ==
    \/ Rerun
    \/ SessionInit
    \/ ProcessButton(FewLists, FewRanges)
    \/ LoopStep
    \/ LoopExit
    \/ Cleanup

Spec == Init /\ [][Next]_vars

----------------------------------------------------------------------------
(* One "Process All IDs" run over every target list and date range of the  *)
(* window, from the state after the session initialisation of a run that   *)
(* holds a client: one that get_client built, or one restored from the     *)
(* session file *)

LoggedInClient == [NewClient EXCEPT !.auth = TRUE, !.handler = TRUE]

RestoredClient == [NewClient EXCEPT !.auth = TRUE]

BatchInit ==
    /\ now = SESSION_DURATION - 1
    /\ sfile = [u \in Usernames |->
                  IF u = "ig_user"
                  THEN [exists |-> TRUE, mtime |-> SESSION_DURATION - 1, auth |-> TRUE]
                  ELSE NoFile]
    /\ client \in {LoggedInClient, RestoredClient}
    /\ results = <<>>
    /\ process_all = FALSE
    /\ pc = "main"
    /\ runs = 1
    /\ USERNAME = "ig_user"
    /\ targets = <<>>
    /\ range = NoRange
    /\ idx = 0
    /\ processed_usernames = {}
    /\ initPath = "held"
    /\ initSnap = [NoSnap EXCEPT !.held = TRUE, !.exists = TRUE]
    /\ handled = <<>>
    /\ calls = <<>>
    /\ warning = "none"
    /\ lastSearch = NoSearch
    /\ CountIdle

BatchNext ==
    \/ ProcessButton(SeqsUpTo(TargetNames, MaxTargets), WindowRanges)
    \/ LoopStep
    \/ LoopExit
    \/ Cleanup

SpecBatch == BatchInit /\ [][BatchNext]_vars

----------------------------------------------------------------------------
(* manual_search alone, on every valid date range of Years *)

AllRanges ==
    {DateRange(sy, sm, ey, em) : sy \in Years, sm \in Months, ey \in Years,
                                 em \in Months}

Search ==
    /\ ~lastSearch.called
    /\ \E r \in {x \in AllRanges : valid_date_range(x)},
          out \in SearchOutcomes(LoggedInClient) :
          lastSearch' = SearchRecord("alice", r, LoggedInClient, out,
                            manual_search("alice", r, LoggedInClient, out))
    /\ UNCHANGED <<appVars, countVars>>

SearchNext == Search

SpecSearch == Init /\ [][SearchNext]_vars

----------------------------------------------------------------------------
(* count_posts_for_month alone, on the posts around a turn of the year *)

PostTimes == DateTime(MinYear, 12) .. (DateTime(MinYear + 1, 2) - 1)

TakenAts == {[t |-> t, tzinfo |-> z] : t \in PostTimes, z \in BOOLEAN}

PostSeqs ==
    {[i \in 1 .. Len(q) |-> [code |-> i, taken_at |-> q[i]]] :
        q \in SeqsUpTo(TakenAts, MaxPosts)}

NoCount == [count |-> 0 - 1, links |-> <<>>]

CountInit ==
    /\ AppIdle
    /\ lastSearch = NoSearch
    /\ cposts \in PostSeqs
    /\ cquery = <<MinYear, 1>>
    /\ cout = NoCount

Count ==
    /\ cout = NoCount
    /\ \E year \in Years, month \in Months :
          /\ cquery' = <<year, month>>
          /\ cout' = count_posts_for_month(cposts, year, month)
    /\ UNCHANGED <<appVars, lastSearch, cposts>>

CountNext == Count

SpecCount == CountInit /\ [][CountNext]_vars

----------------------------------------------------------------------------
(* Properties *)

Range(q) == {q[i] : i \in DOMAIN q}

(* The last manual_search call had a client call raise *)
SearchFailed ==
    /\ lastSearch.called
    /\ lastSearch.out.failAt # NoFail
    /\ lastSearch.out.failAt <= Len(MonthsOfRange(lastSearch.r))

SearchSucceeded == lastSearch.called /\ ~SearchFailed

IsPlaceholder(row) == row.year = "-" /\ row.month = "-" /\ row.count = 0

(* C1: a per-target error never aborts the batch: when a client call made  *)
(* inside manual_search raises, manual_search still returns, its rows end  *)
(* with a placeholder row for the target, the script run is not ended by   *)
(* the exception, and a batch that is over has called manual_search for    *)
(* every distinct target of the list *)
C1_ErrorNeverAbortsBatch ==
    /\ pc # "crashed"
    /\ SearchFailed =>
          /\ lastSearch.raised = "None"
          /\ lastSearch.rows # <<>>
          /\ IsPlaceholder(lastSearch.rows[Len(lastSearch.rows)])
    /\ (pc \in {"cleanup", "ended"} /\ targets # <<>>) =>
          Range(calls) = Range(targets)

(* The (year, month) pair that lies i - 1 calendar months after the start  *)
(* of the range r *)
NthMonth(r, i) ==
    LET k == (r.start_year * 12) + (r.start_month - 1) + (i - 1)
    IN  <<k \div 12, (k % 12) + 1>>

(* C2: for a valid date range and a target whose lookups all succeed,      *)
(* manual_search returns (end_year - start_year) * 12 + (end_month -       *)
(* start_month) + 1 rows, the i-th being the row of the i-th calendar      *)
(* month of the range *)
C2_OneRowPerMonth ==
    SearchSucceeded =>
        LET r == lastSearch.r
            rows == lastSearch.rows
        IN  /\ lastSearch.raised = "None"
            /\ Len(rows) = ((r.end_year - r.start_year) * 12)
                            + (r.end_month - r.start_month) + 1
            /\ \A i \in 1 .. Len(rows) :
                  /\ rows[i].id = lastSearch.username
                  /\ rows[i].year = ToString(NthMonth(r, i)[1])
                  /\ rows[i].month = MonthName(NthMonth(r, i)[2])

(* A range over three calendar years was searched and gave its rows *)
C2_Witness ==
    /\ SearchSucceeded
    /\ lastSearch.r.end_year - lastSearch.r.start_year >= 2
    /\ lastSearch.r.start_month > lastSearch.r.end_month
    /\ Len(lastSearch.rows) > 12

(* C3: when the client raises UserNotFound while a target is processed,    *)
(* the target's rows are exactly one row, with Post Count 0, Year and      *)
(* Month "-" and Links "User not found" *)
C3_NotFoundGivesOneRow ==
    (SearchFailed /\ lastSearch.out.e = "UserNotFound") =>
        /\ lastSearch.raised = "None"
        /\ lastSearch.rows = <<NotFoundRow(lastSearch.username)>>

(* The usernames of q in the order of their first occurrence *)
RECURSIVE FirstOccurrences(_)
FirstOccurrences(q) ==
    IF q = <<>> THEN <<>>
    ELSE LET front == SubSeq(q, 1, Len(q) - 1)
             last == q[Len(q)]
         IN  IF last \in Range(front) THEN FirstOccurrences(front)
             ELSE Append(FirstOccurrences(front), last)

IsPrefix(p, q) == Len(p) <= Len(q) /\ SubSeq(q, 1, Len(p)) = p

(* The ids of the rows, a run of equal ids taken once *)
RECURSIVE Blocks(_)
Blocks(rows) ==
    IF rows = <<>> THEN <<>>
    ELSE LET front == SubSeq(rows, 1, Len(rows) - 1)
             last == rows[Len(rows)].id
         IN  IF front # <<>> /\ front[Len(front)].id = last THEN Blocks(front)
             ELSE Append(Blocks(front), last)

(* C4: in one "Process All IDs" run manual_search is called at most once   *)
(* per distinct username, in the order of the first occurrences in the     *)
(* list; the rows of a username are in the results once, as one block, in  *)
(* that order; and a loop that reached its end has called manual_search    *)
(* exactly once for every distinct username *)
C4_DuplicatesProcessedOnce ==
    /\ \A i, j \in DOMAIN calls : calls[i] = calls[j] => i = j
    /\ IsPrefix(calls, FirstOccurrences(targets))
    /\ pc \in {"loop", "cleanup", "ended", "crashed"} =>
          /\ IsPrefix(Blocks(results), calls)
          /\ Len(Blocks(results)) >= Len(calls) - 1
    /\ (pc \in {"cleanup", "ended"} /\ targets # <<>>) =>
          /\ calls = FirstOccurrences(targets)
          /\ Blocks(results) = calls

(* A list that names alice at its two ends was processed to its end *)
C4_Witness ==
    /\ pc = "ended"
    /\ targets = <<"alice", "bob", "alice">>
    /\ calls = <<"alice", "bob">>
    /\ Blocks(results) = <<"alice", "bob">>

(* What the session initialisation of this run saw *)
SnapValid == initSnap.exists /\ initSnap.age < 86400

(* C5: a stored session is used iff it is valid (the file exists and is    *)
(* less than 86400 seconds old): with no client held and a username given, *)
(* a valid session is loaded and no network login is made; a file of age   *)
(* 86400 or more, or a missing file, is never loaded, and with credentials *)
(* given and Login pressed the run logs in afresh *)
C5_SessionUsedIffValid ==
    initPath # "none" =>
        /\ initPath = "load" => (SnapValid /\ ~initSnap.held /\ USERNAME # "")
        /\ (~initSnap.held /\ USERNAME # "" /\ SnapValid) =>
              (initPath = "load" /\ initSnap.logins = 0)
        /\ (~initSnap.held /\ USERNAME # "" /\ ~SnapValid
              /\ initSnap.password /\ initSnap.login_button) =>
              (initPath = "login" /\ initSnap.logins >= 1)
        /\ initSnap.logins >= 1 => (~SnapValid /\ initPath = "login")

(* A session file exactly 86400 seconds old was passed over for a login *)
C5_Witness ==
    /\ initPath = "login"
    /\ initSnap.exists
    /\ initSnap.age = 86400
    /\ initSnap.logins >= 1

(* C6: when a script run reaches its end, no session file of the run's     *)
(* username that is 86400 seconds old or older remains on disk *)
C6_ExpiredEvictedAtRunEnd ==
    pc = "ended" =>
        ~(sfile[USERNAME].exists /\ now - sfile[USERNAME].mtime >= 86400)

IsCooldownFailure(h) ==
    \/ h.e = "PleaseWaitFewMinutes"
    \/ h.e = "FeedbackRequired" /\ h.env.message \in {BlockedMessage, RestrictMessage}

CooldownOf(h) == IF h.e = "PleaseWaitFewMinutes" THEN 3600 ELSE 12 * 3600

C8_LoginFailureNeverDropped ==
    (initPath = "login" /\ handled # <<>>) =>
        LET h == handled[1]
        IN  /\ \/ h.relogin
               \/ \E k \in DOMAIN h.freezes : h.freezes[k] > 0
               \/ h.raised # "None"
            /\ (h.e = "BadPassword" /\ h.client.relogin_attempt = 0) => h.relogin
            /\ (h.e = "BadPassword" /\ h.client.relogin_attempt > 0) =>
                  /\ h.freezes = <<7 * 86400>>
                  /\ h.raised = "ReloginAttemptExceeded"

(* The calendar year and month a naive timestamp lies in *)
YearOf(t) == (t \div TicksPerMonth) \div 12

MonthOf(t) == ((t \div TicksPerMonth) % 12) + 1

(* C9: count_posts_for_month returns as count the number of the fetched    *)
(* posts whose naive timestamp lies in the calendar month asked for, and   *)
(* as links the permalinks of those posts in fetch order; a post at the    *)
(* first instant of a month is counted in that month, and every post is    *)
(* counted in exactly one calendar month *)
C9_CountsTheMonth ==
    cout # NoCount =>
        LET year == cquery[1]
            month == cquery[2]
            InCalendarMonth(p) ==
                YearOf(p.taken_at.t) = year /\ MonthOf(p.taken_at.t) = month
            hits == SelectSeq(cposts, InCalendarMonth)
        IN  /\ cout.count = Cardinality({i \in DOMAIN cposts : InCalendarMonth(cposts[i])})
            /\ cout.links = [i \in 1 .. Len(hits) |-> Permalink(hits[i])]
            /\ \A i \in DOMAIN cposts :
                  /\ cposts[i].taken_at.t = DateTime(year, month) =>
                        \E k \in DOMAIN cout.links : cout.links[k] = Permalink(cposts[i])
                  /\ Cardinality({ym \in Years \X Months :
                        count_posts_for_month(<<cposts[i]>>, ym[1], ym[2]).count = 1}) = 1
                  /\ \A ym \in Years \X Months :
                        count_posts_for_month(<<cposts[i]>>, ym[1], ym[2]).count <= 1

(* January was asked for, with a post of the last instant of December and  *)
(* a post of the first instant of January fetched: one post is counted *)
C9_Witness ==
    /\ cout # NoCount
    /\ cquery = <<MinYear + 1, 1>>
    /\ Len(cposts) = 2
    /\ cposts[1].taken_at.t = DateTime(MinYear + 1, 1) - 1
    /\ cposts[2].taken_at.t = DateTime(MinYear + 1, 1)
    /\ cout.count = 1
    /\ cout.links = <<Permalink(cposts[2])>>

(* C10: the client handle is set only to an authenticated client, and no   *)
(* session file holds the settings of an unauthenticated one; without a    *)
(* client "Process All IDs" refuses *)
C10_HandleOnlyIfAuthenticated ==
    /\ client.set => client.auth
    /\ \A u \in Usernames : sfile[u].exists => sfile[u].auth
    /\ pc = "loop" => client.set

====
